---- MODULE Spec2Model ----
(***************************************************************************)
(* Model of wrds.sql.Connection (src/wrds/sql.py): construction with the   *)
(* passwordless attempt and the prompted fallback, the schema permission   *)
(* list, the catalog facade and the .pgpass merge-write.                   *)
(*                                                                         *)
(* Text (file contents, lines, SQL statements, names, passwords) is a      *)
(* sequence of one-character strings, so that replace/split/format/int are *)
(* computed as Python computes them.                                       *)
(***************************************************************************)
EXTENDS Integers, Sequences, FiniteSets, TLC

VARIABLES pc, username, password, hostname, port, dbname, schema_perm,
          catalog, privileges, platform, pgdir, pgfile,
          typed, advisories, discoveries, written, op, result, trace

vars == <<pc, username, password, hostname, port, dbname, schema_perm,
          catalog, privileges, platform, pgdir, pgfile,
          typed, advisories, discoveries, written, op, result, trace>>

----------------------------------------------------------------------------
(* Bounds of the model *)

\* create_pgpass_file calls explored per connection object
MaxWrites == 2
\* lines in the credential file found on disk before the program runs
MaxFileLines == 2

----------------------------------------------------------------------------
(* Python values and string primitives *)

\* Python's None where a text is expected: no text contains this token.
NoneVal == <<"<None>">>

NL == "\n"
BS == "\\"

\* truthiness of a str-or-None value: `if x` / `not x`
Truthy(x) == x # NoneVal /\ x # <<>>

\* str.startswith / str.endswith
EndsWith(s, suffix) ==
    /\ Len(s) >= Len(suffix)
    /\ SubSeq(s, Len(s) - Len(suffix) + 1, Len(s)) = suffix

StartsWith(s, prefix) ==
    /\ Len(s) >= Len(prefix)
    /\ SubSeq(s, 1, Len(prefix)) = prefix

\* sub in s
Contains(s, sub) ==
    \E i \in 1..(Len(s) - Len(sub) + 1) : SubSeq(s, i, i + Len(sub) - 1) = sub

\* str.replace(old, new): leftmost non-overlapping occurrences, old non-empty
RECURSIVE Replace(_, _, _)
Replace(s, old, new) ==
    IF Len(s) < Len(old) THEN s
    ELSE IF SubSeq(s, 1, Len(old)) = old
         THEN new \o Replace(SubSeq(s, Len(old) + 1, Len(s)), old, new)
         ELSE <<Head(s)>> \o Replace(Tail(s), old, new)

\* index of the first occurrence of character c in s, 0 when absent
FirstIndex(s, c) ==
    IF \E i \in 1..Len(s) : s[i] = c
    THEN CHOOSE i \in 1..Len(s) : s[i] = c /\ \A j \in 1..(i - 1) : s[j] # c
    ELSE 0

\* str.split(c) for a one-character separator
RECURSIVE Split(_, _)
Split(s, c) ==
    LET i == FirstIndex(s, c)
    IN  IF i = 0 THEN <<s>>
        ELSE <<SubSeq(s, 1, i - 1)>> \o Split(SubSeq(s, i + 1, Len(s)), c)

\* file.readlines(): every line keeps its terminating newline
RECURSIVE ReadLines(_)
ReadLines(content) ==
    LET i == FirstIndex(content, NL)
    IN  IF content = <<>> THEN <<>>
        ELSE IF i = 0 THEN <<content>>
        ELSE <<SubSeq(content, 1, i)>> \o ReadLines(SubSeq(content, i + 1, Len(content)))

\* file.writelines(lines): the lines are written one after the other, nothing added
RECURSIVE WriteLines(_)
WriteLines(lines) ==
    IF lines = <<>> THEN <<>> ELSE Head(lines) \o WriteLines(Tail(lines))

\* sep.join(items)
RECURSIVE Join(_, _)
Join(sep, items) ==
    IF items = <<>> THEN <<>>
    ELSE IF Len(items) = 1 THEN Head(items)
    ELSE Head(items) \o sep \o Join(sep, Tail(items))

Digits == <<"0", "1", "2", "3", "4", "5", "6", "7", "8", "9">>

IsDigit(c) == \E i \in 1..10 : Digits[i] = c

DigitVal(c) == (CHOOSE i \in 1..10 : Digits[i] = c) - 1

\* '{}'.format(n) for an int
RECURSIVE DecNat(_)
DecNat(n) ==
    IF n < 10 THEN <<Digits[n + 1]>> ELSE DecNat(n \div 10) \o <<Digits[(n % 10) + 1]>>

Dec(n) == IF n < 0 THEN <<"-">> \o DecNat(0 - n) ELSE DecNat(n)

IsSpace(c) == c \in {" ", NL}

\* str.strip()
RECURSIVE Strip(_)
Strip(s) ==
    IF s = <<>> THEN s
    ELSE IF IsSpace(Head(s)) THEN Strip(Tail(s))
    ELSE IF IsSpace(s[Len(s)]) THEN Strip(SubSeq(s, 1, Len(s) - 1))
    ELSE s

RECURSIVE DigitsVal(_)
DigitsVal(s) ==
    IF s = <<>> THEN 0 ELSE 10 * DigitsVal(SubSeq(s, 1, Len(s) - 1)) + DigitVal(s[Len(s)])

\* int(s): surrounding blanks dropped, optional sign, decimal digits; anything
\* else raises ValueError
ParseInt(s) ==
    LET t == Strip(s)
        neg == t # <<>> /\ Head(t) = "-"
        body == IF t # <<>> /\ Head(t) \in {"-", "+"} THEN Tail(t) ELSE t
    IN  IF body # <<>> /\ \A i \in 1..Len(body) : IsDigit(body[i])
        THEN [ok |-> TRUE, val |-> IF neg THEN 0 - DigitsVal(body) ELSE DigitsVal(body)]
        ELSE [ok |-> FALSE, val |-> 0]

----------------------------------------------------------------------------
(* Program constants and the values the model draws inputs from *)

WRDS_POSTGRES_HOST ==
    <<"w", "r", "d", "s", "-", "p", "g", "d", "a", "t", "a", ".", "w", "h", "a",
      "r", "t", "o", "n", ".", "u", "p", "e", "n", "n", ".", "e", "d", "u">>
WRDS_POSTGRES_PORT == 9737
WRDS_POSTGRES_DB == <<"w", "r", "d", "s">>

\* the placeholder the merge loop substitutes for an escaped colon
COLON_PLACEHOLDER == <<"#", "#", "C", "O", "L", "O", "N", "#", "#">>
ESCAPED_COLON == <<BS, ":">>

HostA == <<"h", "o", "s", "t", "A">>
HostB == <<"h", "o", "s", "t", "B">>
Db1 == <<"d", "b", "1">>
Db2 == <<"d", "b", "2">>
UserU == <<"u">>
UserV == <<"v">>
\* getpass.getuser(): the operating system's user name
OsUser == <<"o", "s">>

EmptyKwargs == [k \in {} |-> NoneVal]

\* keyword arguments handed to Connection(...)
KwargsSet ==
    { EmptyKwargs,
      [wrds_hostname |-> HostA, wrds_port |-> 5432, wrds_dbname |-> Db1,
       wrds_username |-> UserU],
      [wrds_hostname |-> HostB, wrds_port |-> 5432, wrds_dbname |-> Db2] }

\* dict.get(key, default)
KwGet(kwargs, key, default) ==
    IF key \in DOMAIN kwargs THEN kwargs[key] ELSE default

\* passwords the user may type at the prompt
PwPlain == <<"p", "w">>
PwColon == <<"a", ":", "b">>
PwBackslash == <<"a", BS>>
PwBackslashColon == <<BS, ":", "c">>
PwPlaceholder == COLON_PLACEHOLDER
PwEmpty == <<>>

AllPasswords ==
    {PwPlain, PwColon, PwBackslash, PwBackslashColon, PwPlaceholder, PwEmpty}

\* what the user types at the two prompts
AllTyped == [user : {<<>>, UserU}, passwd : AllPasswords]
FewTyped == {[user |-> <<>>, passwd |-> PwColon]}

\* schema names known to the model
Crsp == <<"c", "r", "s", "p">>
CrspOld == <<"c", "r", "s", "p", "_", "o", "l", "d">>
CompAll == <<"c", "o", "m", "p", "_", "a", "l", "l">>
\* the order in which the server lists schema names
SchemaOrder == <<CompAll, Crsp, CrspOld>>
SchemaUniverse == {SchemaOrder[i] : i \in 1..Len(SchemaOrder)}
\* the library names the facade is called with
Libraries == {Crsp, CrspOld}

Tbl == <<"t">>
ColX == <<"x">>
ColY == <<"y">>
\* columns=None
NoneCols == <<NoneVal>>

\* lines a credential file may hold before the program runs (without newline)
LineA == HostA \o <<":">> \o Dec(5432) \o <<":">> \o Db1 \o <<":">> \o UserU \o <<":", "o", "l", "d">>
LineB == HostB \o <<":">> \o Dec(5432) \o <<":">> \o Db2 \o <<":">> \o UserV \o <<":", "q">>
\* an entry whose port is the wildcard of the .pgpass format
LineStar == HostA \o <<":", "*", ":">> \o Db1 \o <<":">> \o UserU \o <<":", "o">>
LineSet == {LineA, LineB, LineStar}

RECURSIVE Terminated(_)
Terminated(lines) ==
    IF lines = <<>> THEN <<>> ELSE Head(lines) \o <<NL>> \o Terminated(Tail(lines))

AbsentFile == [exists |-> FALSE, content |-> <<>>, mode |-> "none"]
ExistingFile(content) == [exists |-> TRUE, content |-> content, mode |-> "600"]

InitialFiles ==
    {AbsentFile} \cup
    { ExistingFile(Terminated(ls)) :
        ls \in UNION { [1..n -> LineSet] : n \in 0..MaxFileLines } }

FewFiles == {AbsentFile}

----------------------------------------------------------------------------
(* Results, calls on collaborators, operations *)

Ret(v) == [kind |-> "return", val |-> v, n |-> 0]
RetInt(n) == [kind |-> "return", val |-> "int", n |-> n]
Raise(e) == [kind |-> "raise", val |-> e, n |-> 0]
NoResult == [kind |-> "none", val |-> "none", n |-> 0]

\* one call on a collaborator (engine, inspector, pandas, console, prompt)
Call(c, a) == [call |-> c, arg |-> a]

Op(name, library, table, obs, offset, columns) ==
    [name |-> name, library |-> library, table |-> table,
     obs |-> obs, offset |-> offset, columns |-> columns]
Op0(name) == Op(name, NoneVal, NoneVal, 0, 0, NoneCols)

----------------------------------------------------------------------------
(* Connection.__init__ *)

\* __get_user_credentials: the typed username, the OS user when left empty,
\* and the typed password
GetUserCredentials ==
    [user |-> IF ~Truthy(typed.user) THEN OsUser ELSE typed.user,
     passwd |-> typed.passwd]

ReservedSuffix(x) ==
    EndsWith(x, <<"_", "o", "l", "d">>) \/ EndsWith(x, <<"_", "a", "l", "l">>)

NotReserved(x) == ~ReservedSuffix(x)

\* the rows of the privilege query: schemas with USAGE privilege
InPrivileges(x) == x \in privileges
PrivilegeRows == SelectSeq(SchemaOrder, InPrivileges)

\* a comprehension that forgets the '_all' suffix
NotOld(x) == ~EndsWith(x, <<"_", "o", "l", "d">>)
FilterSchemaPerm_OldOnly(rows) == SelectSeq(rows, NotOld)

\* self.schema_perm = [x[0] for x in rows if not (endswith _old or _all)]
FilterSchemaPerm(rows) == SelectSeq(rows, NotReserved)

\* a warning issued only once the retry has connected
AdvisoryOnFallback_AfterRetry(retry_ok) == retry_ok

\* warnings.warn(...) sits between the second create_engine and the retry
AdvisoryOnFallback(retry_ok) == TRUE

\* an except branch that leaves the prompted credentials in place
ClearedCredentials_Kept(creds) == creds

\* the except branch of the retry: both credentials are set to None
ClearedCredentials(creds) == [user |-> NoneVal, passwd |-> NoneVal]

Connect(kwargs, first_ok, retry_ok, disc_ok) ==
    LET kwuser == KwGet(kwargs, "wrds_username", NoneVal)
        creds == GetUserCredentials
        connected == first_ok \/ retry_ok
        warned == ~first_ok /\ AdvisoryOnFallback(retry_ok)
        final == IF first_ok THEN [user |-> kwuser, passwd |-> <<>>]
                 ELSE IF retry_ok THEN creds
                 ELSE ClearedCredentials(creds)
        t1 == <<Call("connect", <<"passwordless">>)>>
        t2 == IF first_ok THEN <<>>
              ELSE <<Call("input", <<>>), Call("getpass", <<>>)>>
                   \o (IF warned THEN <<Call("warn", <<"pgpass advisory">>)>> ELSE <<>>)
                   \o <<Call("connect", <<"embedded password">>)>>
                   \o (IF retry_ok THEN <<>>
                       ELSE <<Call("print", <<"There was an error with your password.">>)>>)
        t3 == IF ~connected THEN <<>>
              ELSE <<Call("inspect", <<>>),
                     Call("print", <<"Loading library list...">>),
                     Call("execute", <<"schema discovery">>)>>
                   \o (IF disc_ok THEN <<Call("print", <<"Done">>)>> ELSE <<>>)
    IN  /\ pc = "start"
        /\ hostname' = KwGet(kwargs, "wrds_hostname", WRDS_POSTGRES_HOST)
        /\ port' = KwGet(kwargs, "wrds_port", WRDS_POSTGRES_PORT)
        /\ dbname' = KwGet(kwargs, "wrds_dbname", WRDS_POSTGRES_DB)
        /\ username' = final.user
        /\ password' = final.passwd
        /\ advisories' = advisories + (IF warned THEN 1 ELSE 0)
        /\ discoveries' = discoveries + (IF connected THEN 1 ELSE 0)
        /\ schema_perm' = IF connected /\ disc_ok
                          THEN FilterSchemaPerm(PrivilegeRows) ELSE schema_perm
        /\ pc' = IF connected /\ disc_ok THEN "ready" ELSE "failed"
        /\ result' = IF ~connected THEN Raise("ConnectError")
                     ELSE IF ~disc_ok THEN Raise("QueryError")
                     ELSE Ret("Connection")
        /\ op' = Op0("__init__")
        /\ trace' = t1 \o t2 \o t3
        /\ UNCHANGED <<catalog, privileges, platform, pgdir, pgfile, typed, written>>

ConnectAny ==
    \E kwargs \in KwargsSet, first_ok \in BOOLEAN, retry_ok \in BOOLEAN, disc_ok \in BOOLEAN :
        Connect(kwargs, first_ok, retry_ok, disc_ok)

----------------------------------------------------------------------------
(* Schema authorization check and the catalog facade *)

\* x in list
InSeq(x, s) == \E i \in 1..Len(s) : s[i] = x

\* a check that raises the two errors the wrong way round
CheckSchemaPerms_Swapped(schema) ==
    IF InSeq(schema, schema_perm)
    THEN [out |-> "True", trace |-> <<>>]
    ELSE IF schema \in catalog
         THEN [out |-> "SchemaNotFoundError",
               trace |-> <<Call("get_schema_names", <<>>)>>]
         ELSE [out |-> "NotSubscribedError",
               trace |-> <<Call("get_schema_names", <<>>)>>]

\* __check_schema_perms: True, or the name of the error it raises.  The
\* catalog's schema list is asked for only when the name is not permitted.
CheckSchemaPerms(schema) ==
    IF InSeq(schema, schema_perm)
    THEN [out |-> "True", trace |-> <<>>]
    ELSE IF schema \in catalog
         THEN [out |-> "NotSubscribedError",
               trace |-> <<Call("get_schema_names", <<>>)>>]
         ELSE [out |-> "SchemaNotFoundError",
               trace |-> <<Call("get_schema_names", <<>>)>>]

\* what the view-dependency query answers: no row, a row holding NULL, a row
\* holding the base table's schema, or a failing query
DepAnswers == {"norow", "null", "schema", "error"}
\* what the reltuples query answers
CountAnswers == {"row", "norow", "error"}
\* the planner's estimate in the row
RelTuples == 42
\* what pandas.read_sql_query does with a statement
SqlAnswers == {"DataFrame", "ProgrammingError"}

\* result.fetchone()[0] of the dependency query: subscripting None (no row)
\* raises TypeError
FetchSourceSchema(dep, schema) ==
    IF dep = "norow" THEN [kind |-> "raise", val |-> "TypeError", schema |-> NoneVal]
    ELSE IF dep = "null" THEN [kind |-> "return", val |-> "None", schema |-> NoneVal]
    ELSE [kind |-> "return", val |-> "schema", schema |-> schema]


\* a lookup that sends the dependency query before it checks the schema
GetSchemaForView_QueryFirst(schema, table, dep) ==
    LET c == CheckSchemaPerms(schema)
        q == <<Call("execute", <<"view dependency of ">> \o schema \o <<".">> \o table)>>
    IN  IF c.out # "True"
        THEN [kind |-> "raise", val |-> c.out, schema |-> NoneVal, trace |-> q \o c.trace]
        ELSE IF dep = "error"
        THEN [kind |-> "raise", val |-> "QueryError", schema |-> NoneVal,
              trace |-> q \o c.trace]
        ELSE LET f == FetchSourceSchema(dep, schema)
             IN  [kind |-> f.kind, val |-> f.val, schema |-> f.schema,
                  trace |-> q \o c.trace \o <<Call("fetchone", <<"dependency", dep>>)>>]

\* __get_schema_for_view
GetSchemaForView(schema, table, dep) ==
    LET c == CheckSchemaPerms(schema)
        q == <<Call("execute", <<"view dependency of ">> \o schema \o <<".">> \o table)>>
    IN  IF c.out # "True"
        THEN [kind |-> "raise", val |-> c.out, schema |-> NoneVal, trace |-> c.trace]
        ELSE IF dep = "error"
        THEN [kind |-> "raise", val |-> "QueryError", schema |-> NoneVal,
              trace |-> c.trace \o q]
        ELSE LET f == FetchSourceSchema(dep, schema)
             IN  [kind |-> f.kind, val |-> f.val, schema |-> f.schema,
                  trace |-> c.trace \o q \o <<Call("fetchone", <<"dependency", dep>>)>>]

\* get_row_count
GetRowCount(library, table, dep, cnt) ==
    LET v == GetSchemaForView(library, table, dep)
        q == <<Call("execute", <<"reltuples of ">> \o v.schema \o <<".">> \o table)>>
    IN  IF v.kind = "raise"
        THEN [result |-> Raise(v.val), trace |-> v.trace]
        ELSE IF Truthy(v.schema)
        THEN IF cnt = "row"
             THEN [result |-> RetInt(RelTuples), trace |-> v.trace \o q]
             ELSE [result |-> RetInt(0),
                   trace |-> v.trace \o q \o
                     <<Call("print", <<"There was a problem with retrieving the row count">>)>>]
        ELSE [result |-> Ret("None"),
              trace |-> v.trace \o
                     <<Call("print", <<"There was a problem with retrieving the schema">>)>>]

\* describe_table
DescribeTable(library, table, dep, cnt) ==
    LET r == GetRowCount(library, table, dep, cnt)
    IN  IF r.result.kind = "raise" THEN r
        ELSE [result |-> Ret("DataFrame"),
              trace |-> r.trace \o <<Call("print", <<"Approximately rows">>),
                                     Call("get_columns", library \o <<".">> \o table)>>]

\* list_tables
ListTables(library) ==
    LET c == CheckSchemaPerms(library)
    IN  IF c.out # "True" THEN [result |-> Raise(c.out), trace |-> c.trace]
        ELSE [result |-> Ret("view_names"),
              trace |-> c.trace \o <<Call("get_view_names", library)>>]

\* raw_sql: the frame pandas builds, or the engine's error raised again
RawSql(sql, answer) ==
    [result |-> IF answer = "DataFrame" THEN Ret("DataFrame") ELSE Raise(answer),
     trace |-> <<Call("read_sql_query", sql)>>]

\* a limit clause dropped for obs=0 as well
ObsStmt_ZeroUnlimited(obs) ==
    IF obs <= 0 THEN <<>> ELSE <<" ", "L", "I", "M", "I", "T", " ">> \o Dec(obs)

\* get_table, lines 460-463
ObsStmt(obs) ==
    IF obs < 0 THEN <<>> ELSE <<" ", "L", "I", "M", "I", "T", " ">> \o Dec(obs)

\* get_table, lines 464-467
ColsStmt(columns) ==
    IF columns = NoneCols THEN <<"*">> ELSE Join(<<",">>, columns)

\* 'select {cols} from {schema}.{table} {obsstmt} OFFSET {offset};'
SqlStmt(library, table, obs, offset, columns) ==
    <<"s", "e", "l", "e", "c", "t", " ">> \o ColsStmt(columns)
    \o <<" ", "f", "r", "o", "m", " ">> \o library \o <<".">> \o table \o <<" ">>
    \o ObsStmt(obs) \o <<" ", "O", "F", "F", "S", "E", "T", " ">> \o Dec(offset) \o <<";">>

\* get_table
GetTable(library, table, obs, offset, columns, answer) ==
    LET c == CheckSchemaPerms(library)
        r == RawSql(SqlStmt(library, table, obs, offset, columns), answer)
    IN  IF c.out # "True" THEN [result |-> Raise(c.out), trace |-> c.trace]
        ELSE [result |-> r.result, trace |-> c.trace \o r.trace]

\* a facade call that only reads: it leaves the object and the files alone
Facade(o, outcome) ==
    /\ pc = "ready"
    /\ op' = o
    /\ result' = outcome.result
    /\ trace' = outcome.trace
    /\ UNCHANGED <<pc, username, password, hostname, port, dbname, schema_perm,
                   catalog, privileges, platform, pgdir, pgfile, typed,
                   advisories, discoveries, written>>

\* list_libraries returns the list itself
DoListLibraries ==
    Facade(Op0("list_libraries"), [result |-> Ret("schema_perm"), trace |-> <<>>])

DoListTables ==
    \E library \in Libraries :
        Facade(Op("list_tables", library, NoneVal, 0, 0, NoneCols), ListTables(library))

DoGetRowCount ==
    \E library \in Libraries, dep \in DepAnswers, cnt \in CountAnswers :
        Facade(Op("get_row_count", library, Tbl, 0, 0, NoneCols),
               GetRowCount(library, Tbl, dep, cnt))

DoDescribeTable ==
    \E library \in Libraries, dep \in DepAnswers, cnt \in CountAnswers :
        Facade(Op("describe_table", library, Tbl, 0, 0, NoneCols),
               DescribeTable(library, Tbl, dep, cnt))

DoRawSql ==
    \E answer \in SqlAnswers :
        Facade(Op0("raw_sql"), RawSql(<<"select 1;">>, answer))

ObsSet == {-1, 0, 500}
OffsetSet == {0, 100}
ColumnsSet == {NoneCols, <<ColX>>, <<ColX, ColY>>}

DoGetTable(obsSet, offsetSet, columnsSet) ==
    \E library \in Libraries, obs \in obsSet, offset \in offsetSet,
       columns \in columnsSet, answer \in SqlAnswers :
        Facade(Op("get_table", library, Tbl, obs, offset, columns),
               GetTable(library, Tbl, obs, offset, columns, answer))

\* get_table(library, table): obs=-1, offset=0, columns=None
DoGetTableDefault == DoGetTable({-1}, {0}, {NoneCols})

DoGetTableAny == DoGetTable(ObsSet, OffsetSet, ColumnsSet)

\* the server's catalog and privileges change while the object lives: one
\* schema is created, dropped, granted or revoked
ServerChange ==
    /\ pc = "ready"
    /\ \E s \in SchemaUniverse :
          \/ /\ s \notin catalog
             /\ catalog' = catalog \cup {s}
             /\ privileges' = privileges
          \/ /\ s \in catalog
             /\ catalog' = catalog \ {s}
             /\ privileges' = privileges \ {s}
          \/ /\ s \in catalog /\ s \notin privileges
             /\ catalog' = catalog
             /\ privileges' = privileges \cup {s}
          \/ /\ s \in privileges
             /\ catalog' = catalog
             /\ privileges' = privileges \ {s}
    /\ UNCHANGED <<pc, username, password, hostname, port, dbname, schema_perm,
                   platform, pgdir, pgfile, typed, advisories, discoveries,
                   written, op, result, trace>>

----------------------------------------------------------------------------
(* create_pgpass_file and the merge-write *)

\* a password written without escaping its colons
EscapePassword_None(passwd) == passwd

\* passwd.replace(':', '\:')
EscapePassword(passwd) == Replace(passwd, <<":">>, ESCAPED_COLON)

\* "{host}:{port}:{dbname}:{user}:{passwd}".format(...)
FormatPgpass(host, prt, db, user, passwd) ==
    host \o <<":">> \o Dec(prt) \o <<":">> \o db \o <<":">> \o user \o <<":">> \o passwd

\* line.replace("\:", '##COLON##').split(':')
LineFields(line) == Split(Replace(line, ESCAPED_COLON, COLON_PLACEHOLDER), ":")

\* the test of lines 234-236, left to right with short-circuit `and`:
\* "match", "nomatch", or the exception the subscripts or int() raise
MatchLine(line, host, prt, db) ==
    LET fields == LineFields(line)
    IN  IF fields[1] # host THEN "nomatch"
        ELSE IF Len(fields) < 2 THEN "IndexError"
        ELSE IF ~ParseInt(fields[2]).ok THEN "ValueError"
        ELSE IF ParseInt(fields[2]).val # prt THEN "nomatch"
        ELSE IF Len(fields) < 3 THEN "IndexError"
        ELSE IF fields[3] = db THEN "match" ELSE "nomatch"

\* what the loop appends for a matching line: the new entry, as formatted
ReplacementLine(newline) == newline

\* the for loop of lines 224-245: the new list of lines, or the first exception
RECURSIVE MergeLines(_, _, _, _, _)
MergeLines(lines, newline, host, prt, db) ==
    IF lines = <<>> THEN [err |-> "none", lines |-> <<>>]
    ELSE LET m == MatchLine(Head(lines), host, prt, db)
             rest == MergeLines(Tail(lines), newline, host, prt, db)
         IN  IF m \in {"IndexError", "ValueError"} THEN [err |-> m, lines |-> <<>>]
             ELSE IF rest.err # "none" THEN rest
             ELSE [err |-> "none",
                   lines |-> <<IF m = "match" THEN ReplacementLine(newline)
                               ELSE Head(lines)>> \o rest.lines]

\* the lines written when the file exists and the loop has run: the loop's
\* list, to which nothing is added when no line matched
LinesForExistingFile(merged, newline) == merged

\* __write_pgpass_file: the new content of the file, or the exception raised
\* before the file is opened for writing
WritePgpassFile(file, host, prt, db, user, passwd) ==
    LET newline == FormatPgpass(host, prt, db, user, EscapePassword(passwd))
        merged == MergeLines(ReadLines(file.content), newline, host, prt, db)
    IN  IF file.exists
        THEN IF merged.err # "none"
             THEN [err |-> merged.err, content |-> file.content]
             ELSE [err |-> "none",
                   content |-> WriteLines(LinesForExistingFile(merged.lines, newline))
                               \o <<NL>>]
        ELSE [err |-> "none", content |-> WriteLines(<<newline>>) \o <<NL>>]

\* create_pgpass_file with __create_pgpass_file_win32 / _unix
CreatePgpassFile ==
    LET prompt == ~Truthy(username) \/ ~Truthy(password)
        creds == IF prompt THEN GetUserCredentials
                 ELSE [user |-> username, passwd |-> password]
        w == WritePgpassFile(pgfile, hostname, port, dbname, creds.user, creds.passwd)
        obstructed == platform = "win32" /\ pgdir = "file"
        \* os.chmod(pgfile, S_IRUSR|S_IWUSR) when the file is there, on unix
        opened == IF platform = "unix" /\ pgfile.exists
                  THEN [pgfile EXCEPT !.mode = "600"] ELSE pgfile
        \* open(pgfile, 'w') creates the file when absent
        stored == [exists |-> TRUE, content |-> w.content,
                   mode |-> IF opened.exists THEN opened.mode ELSE "644"]
        \* os.chmod(pgfile, S_IRUSR) after the write, on unix
        closed == IF platform = "unix" THEN [stored EXCEPT !.mode = "400"] ELSE stored
        prompts == IF prompt THEN <<Call("input", <<>>), Call("getpass", <<>>)>> ELSE <<>>
    IN  /\ pc = "ready"
        /\ Len(written) < MaxWrites
        /\ username' = creds.user
        /\ password' = creds.passwd
        /\ op' = Op0("create_pgpass_file")
        /\ IF obstructed
           THEN /\ result' = Raise("FileExistsError")
                /\ trace' = prompts
                /\ UNCHANGED <<pgdir, pgfile, written>>
           ELSE /\ pgdir' = IF platform = "win32" THEN "dir" ELSE pgdir
                /\ IF w.err # "none"
                   THEN /\ result' = Raise(w.err)
                        /\ trace' = prompts \o <<Call("read", <<>>)>>
                        /\ pgfile' = opened
                        /\ UNCHANGED written
                   ELSE /\ result' = Ret("None")
                        /\ trace' = prompts
                                    \o (IF pgfile.exists THEN <<Call("read", <<>>)>> ELSE <<>>)
                                    \o <<Call("write", w.content)>>
                        /\ pgfile' = closed
                        /\ written' = Append(written,
                                [before |-> pgfile, user |-> creds.user,
                                 passwd |-> creds.passwd])
        /\ UNCHANGED <<pc, hostname, port, dbname, schema_perm, catalog, privileges,
                       platform, typed, advisories, discoveries>>

----------------------------------------------------------------------------
(* Specifications *)

InitObject ==
    /\ pc = "start"
    /\ username = NoneVal
    /\ password = NoneVal
    /\ hostname = NoneVal
    /\ port = 0
    /\ dbname = NoneVal
    /\ schema_perm = <<>>
    /\ advisories = 0
    /\ discoveries = 0
    /\ written = <<>>
    /\ op = Op0("none")
    /\ result = NoResult
    /\ trace = <<>>

\* the catalog facade: any server, one typed input, no credential file yet
Init ==
    /\ InitObject
    /\ catalog \in SUBSET SchemaUniverse
    /\ privileges \in SUBSET catalog
    /\ platform = "unix"
    /\ pgdir = "dir"
    /\ pgfile \in FewFiles
    /\ typed \in FewTyped

\* the credential file writer: any file, platform and typed input, one server
InitPgpass ==
    /\ InitObject
    /\ catalog = SchemaUniverse
    /\ privileges = {Crsp}
    /\ platform \in {"unix", "win32"}
    /\ pgdir \in (IF platform = "unix" THEN {"dir"} ELSE {"dir", "absent", "file"})
    /\ pgfile \in (IF pgdir = "dir" THEN InitialFiles ELSE {AbsentFile})
    /\ typed \in AllTyped

Next ==
    \/ ConnectAny
    \/ ServerChange
    \/ DoListLibraries
    \/ DoListTables
    \/ DoGetRowCount
    \/ DoDescribeTable
    \/ DoRawSql
    \/ DoGetTableDefault
    \/ CreatePgpassFile

\* get_table with every combination of obs, offset and columns, one server
InitGetTable ==
    /\ InitObject
    /\ catalog = SchemaUniverse
    /\ privileges \in {{Crsp}, {Crsp, CrspOld}}
    /\ platform = "unix"
    /\ pgdir = "dir"
    /\ pgfile = AbsentFile
    /\ typed \in FewTyped

NextGetTable ==
    \/ ConnectAny
    \/ DoGetTableAny
    \/ DoRawSql

NextPgpass ==
    \/ ConnectAny
    \/ CreatePgpassFile

Spec == Init /\ [][Next]_vars

SpecGetTable == InitGetTable /\ [][NextGetTable]_vars

SpecPgpass == InitPgpass /\ [][NextPgpass]_vars

TypeOK ==
    /\ pc \in {"start", "ready", "failed"}
    /\ advisories \in 0..1
    /\ discoveries \in 0..1
    /\ Len(written) <= MaxWrites

----------------------------------------------------------------------------
(* Properties *)

LastWrite == written[Len(written)]

\* the entry the current connection writes
CurrentEntry ==
    FormatPgpass(hostname, port, dbname, username, EscapePassword(password))

\* the lines of a file content that carry the connection's triple
MatchingLines(content) ==
    {i \in 1..Len(ReadLines(content)) :
        MatchLine(ReadLines(content)[i], hostname, port, dbname) = "match"}

\* a step in which list_tables runs against the server as it stands
ListTablesStep ==
    /\ pc = "ready"
    /\ op'.name = "list_tables"
    /\ UNCHANGED <<catalog, privileges>>

CheckOutcomes ==
    {Ret("view_names"), Raise("NotSubscribedError"), Raise("SchemaNotFoundError")}

\* C1 (as stated): the check yields SchemaNotFoundError for every name not in
\* the catalog, NotSubscribedError for every name in the catalog but not in
\* the permission list, and success for every permitted name.
C1_Original ==
    [][ListTablesStep =>
         LET s == op'.library
         IN  /\ result' \in CheckOutcomes
             /\ (s \notin catalog => result' = Raise("SchemaNotFoundError"))
             /\ (s \in catalog /\ ~InSeq(s, schema_perm)
                    => result' = Raise("NotSubscribedError"))
             /\ (InSeq(s, schema_perm) => result' = Ret("view_names"))]_vars

\* C1 (amended): the check yields exactly one of the three outcomes: success
\* exactly for the names in the permission list (whether or not the catalog
\* still lists them), NotSubscribedError exactly for the names not in the
\* list but in the catalog, SchemaNotFoundError exactly for the names in
\* neither.
C1_CheckOutcomes ==
    [][ListTablesStep =>
         LET s == op'.library
         IN  /\ result' \in CheckOutcomes
             /\ (InSeq(s, schema_perm) <=> result' = Ret("view_names"))
             /\ (~InSeq(s, schema_perm) /\ s \in catalog
                    <=> result' = Raise("NotSubscribedError"))
             /\ (~InSeq(s, schema_perm) /\ s \notin catalog
                    <=> result' = Raise("SchemaNotFoundError"))]_vars

\* list_tables succeeded for a permitted name that the catalog does not list
C1_Witness ==
    /\ op.name = "list_tables"
    /\ result = Ret("view_names")
    /\ InSeq(op.library, schema_perm)
    /\ op.library \notin catalog

\* C2: after create_pgpass_file every line of the file as it was, whose
\* (hostname, port, database) triple differs from the connection's, is still
\* a line of the file, unchanged.
C2_PreservesUnrelated ==
    written # <<>> =>
        LET old == ReadLines(LastWrite.before.content)
        IN  \A i \in 1..Len(old) :
                MatchLine(old[i], hostname, port, dbname) = "nomatch"
                    => InSeq(old[i], ReadLines(pgfile.content))

\* C3: after two create_pgpass_file calls with the same tuple, from any file
\* state, exactly one line of the file carries the connection's triple.
C3_Idempotent ==
    (/\ Len(written) >= 2
     /\ written[Len(written) - 1].user = LastWrite.user
     /\ written[Len(written) - 1].passwd = LastWrite.passwd)
        => Cardinality(MatchingLines(pgfile.content)) = 1

\* C4: when the file existed and none of its lines matched the connection's
\* triple, the write appended the current entry, so the file holds it as a
\* line; when a line matched, the file holds the new entry in its place.
C4_AppendsOrReplaces ==
    (written # <<>> /\ LastWrite.before.exists) =>
        LET new == ReadLines(pgfile.content)
        IN  IF MatchingLines(LastWrite.before.content) = {}
            THEN \E i \in 1..Len(new) : new[i] \in {CurrentEntry, CurrentEntry \o <<NL>>}
            ELSE \E i \in 1..Len(new) : StartsWith(new[i], CurrentEntry)

\* C5: get_row_count on an authorized schema whose dependency query yields
\* no row prints the diagnostic and returns None; it does not raise.
C5_NoRowReturnsNone ==
    (/\ op.name = "get_row_count"
     /\ InSeq(op.library, schema_perm)
     /\ InSeq(Call("fetchone", <<"dependency", "norow">>), trace))
        => /\ result = Ret("None")
           /\ InSeq(Call("print", <<"There was a problem with retrieving the schema">>), trace)

\* the constructor reported the failure of the retry
RetryFailed ==
    /\ op.name = "__init__"
    /\ InSeq(Call("print", <<"There was an error with your password.">>), trace)

\* C6: when the passwordless attempt and the retry both fail, the constructor
\* raises the connection error with username and password cleared, runs no
\* schema-discovery query and leaves no usable object.
C6_AbortClearsCredentials ==
    RetryFailed =>
        /\ result = Raise("ConnectError")
        /\ pc = "failed"
        /\ username = NoneVal
        /\ password = NoneVal
        /\ discoveries = 0
        /\ \A i \in 1..Len(trace) : trace[i].call # "execute"
        /\ schema_perm = <<>>

C6_Witness ==
    /\ RetryFailed
    /\ InSeq(Call("getpass", <<>>), trace)
    /\ typed.passwd # <<>>

EmbeddedConnect == Call("connect", <<"embedded password">>)
Advisory == Call("warn", <<"pgpass advisory">>)

\* C7 (as stated): the advisory is emitted only when a connection was
\* established through the fallback path: never when the first attempt
\* succeeds, never when the retry fails.
C7_Original ==
    (op.name = "__init__" /\ advisories > 0) =>
        /\ InSeq(EmbeddedConnect, trace)
        /\ result # Raise("ConnectError")

\* C7 (amended): the advisory is emitted, once, exactly when the constructor
\* enters the fallback path, just before the retry and whatever the retry's
\* outcome; never when the first attempt succeeds.
C7_AdvisoryOnFallbackEntry ==
    /\ advisories \in {0, 1}
    /\ op.name = "__init__" =>
        /\ advisories = 1 <=> InSeq(EmbeddedConnect, trace)
        /\ \A i \in 1..Len(trace) :
              trace[i] = EmbeddedConnect => (i > 1 /\ trace[i - 1] = Advisory)
        /\ \A i \in 1..Len(trace) :
              trace[i] = Advisory => (i < Len(trace) /\ trace[i + 1] = EmbeddedConnect)

\* the advisory was emitted and the retry failed
C7_Witness ==
    /\ RetryFailed
    /\ advisories = 1
    /\ result = Raise("ConnectError")

\* C8: once constructed, the permission list never changes, whatever
\* operation runs and whatever the server's privileges become, and it holds
\* no name ending in '_old' or '_all'.
C8_PermissionSetFixed ==
    [][/\ pc = "ready" => schema_perm' = schema_perm
       /\ pc' = "ready" =>
            \A i \in 1..Len(schema_perm') : NotReserved(schema_perm'[i])]_vars

\* the list, still holding a name whose privilege the server has revoked,
\* while a reserved name is privileged, after a credential-file write
C8_Witness ==
    /\ pc = "ready"
    /\ schema_perm = <<Crsp>>
    /\ Crsp \notin privileges
    /\ CrspOld \in privileges
    /\ written # <<>>

\* the statement get_table handed to raw_sql
GetTableStmt == trace[Len(trace)].arg

\* C9: for an authorized library the statement of get_table has no LIMIT
\* clause when obs < 0, has 'LIMIT obs' when obs >= 0, always ends with
\* 'OFFSET offset;', and selects '*' for columns=None and the comma-joined
\* columns otherwise.
C9_StatementText ==
    (op.name = "get_table" /\ InSeq(op.library, schema_perm)) =>
        /\ trace = <<Call("read_sql_query", GetTableStmt)>>
        /\ op.obs < 0 => ~Contains(GetTableStmt, <<"L", "I", "M", "I", "T">>)
        /\ op.obs >= 0 =>
              Contains(GetTableStmt,
                       <<" ", "L", "I", "M", "I", "T", " ">> \o Dec(op.obs)
                       \o <<" ", "O", "F", "F", "S", "E", "T", " ">>)
        /\ EndsWith(GetTableStmt,
                    <<" ", "O", "F", "F", "S", "E", "T", " ">> \o Dec(op.offset) \o <<";">>)
        /\ op.columns = NoneCols =>
              StartsWith(GetTableStmt, <<"s", "e", "l", "e", "c", "t", " ", "*", " ", "f", "r", "o", "m", " ">>)
        /\ op.columns = <<ColX>> =>
              StartsWith(GetTableStmt, <<"s", "e", "l", "e", "c", "t", " ", "x", " ", "f", "r", "o", "m", " ">>)
        /\ op.columns = <<ColX, ColY>> =>
              StartsWith(GetTableStmt, <<"s", "e", "l", "e", "c", "t", " ", "x", ",", "y", " ", "f", "r", "o", "m", " ">>)

C9_Witness ==
    /\ op.name = "get_table"
    /\ InSeq(op.library, schema_perm)
    /\ op.obs = 0
    /\ op.offset = 100
    /\ op.columns = <<ColX, ColY>>
    /\ result = Ret("DataFrame")

\* the file holds exactly what a write into an absent file produced
FreshlyWritten == written # <<>> /\ ~LastWrite.before.exists

\* the fields the merge loop obtains from the line of that file
WrittenFields == LineFields(ReadLines(pgfile.content)[1])

\* a field without the line terminator readlines() leaves on the last field
Unterminated(field) ==
    IF field # <<>> /\ field[Len(field)] = NL
    THEN SubSeq(field, 1, Len(field) - 1) ELSE field

SchemaScopedOps == {"list_tables", "get_row_count", "describe_table", "get_table"}

\* calls that execute SQL or inspect tables and columns
WorkCalls ==
    {"execute", "fetchone", "read_sql_query", "get_view_names", "get_columns"}

\* a schema-scoped operation was called with a schema outside the permission list
UnpermittedCall ==
    /\ op.name \in SchemaScopedOps
    /\ ~InSeq(op.library, schema_perm)

====
